---- MODULE Spec2Model ----
(***************************************************************************)
(* Holiday scoreboard (script.js): a roster of players kept in one         *)
(* Firestore document, an edit form generated from it, the three mutation  *)
(* handlers (addPlayer, removePlayer, handleSaveScores) and the ranked     *)
(* scoreboard.                                                             *)
(*                                                                         *)
(* Strings are sequences of one-character strings, so that trim, parseInt  *)
(* and the template's number formatting are computed, not assumed.         *)
(*                                                                         *)
(* Every async function is cut at its awaits.  The answer of a storage     *)
(* call and the continuation that runs up to the next await are one step:  *)
(* JavaScript runs a continuation to its next await without interruption.  *)
(***************************************************************************)
EXTENDS Integers, Sequences, FiniteSets, TLC

(* ---------------- bounds ---------------- *)

\* number of handler calls (add / remove / save) that can be in flight at once
NumOps == 2
\* number of user events (typing, submit, clicks) in one session
MaxEvents == 2
\* longest roster the ranking is applied to on its own
MaxRankLen == 3
\* most rows of a form that save-edits is applied to on its own
MaxEditLen == 3

Procs == 1..NumOps

(* ---------------- strings ---------------- *)

Digits == <<"0", "1", "2", "3", "4", "5", "6", "7", "8", "9">>

IsDigit(c) == \E i \in 1..10 : Digits[i] = c

DigitVal(c) == (CHOOSE i \in 1..10 : Digits[i] = c) - 1

IsSpace(c) == c = " "

RECURSIVE LStrip(_)
LStrip(s) == IF s # <<>> /\ IsSpace(Head(s)) THEN LStrip(Tail(s)) ELSE s

RECURSIVE RStrip(_)
RStrip(s) ==
    IF s # <<>> /\ IsSpace(s[Len(s)]) THEN RStrip(SubSeq(s, 1, Len(s) - 1)) ELSE s

\* String.prototype.trim
Trim(s) == RStrip(LStrip(s))

\* Number -> string, as a template literal `${n}` prints an integer
RECURSIVE ToStr(_)
ToStr(n) ==
    IF n < 0 THEN <<"-">> \o ToStr(0 - n)
    ELSE IF n < 10 THEN <<Digits[n + 1]>>
    ELSE ToStr(n \div 10) \o <<Digits[(n % 10) + 1]>>

\* value of the leading run of digits of s, continuing from acc
RECURSIVE DigitRun(_, _)
DigitRun(s, acc) ==
    IF s # <<>> /\ IsDigit(Head(s)) THEN DigitRun(Tail(s), acc * 10 + DigitVal(Head(s)))
    ELSE acc

NaN == [nan |-> TRUE, val |-> 0]

\* parseInt(s) in radix 10; s = null is parseInt("null"), which is NaN
ParseInt(s) ==
    LET t    == LStrip(s)
        neg  == t # <<>> /\ Head(t) = "-"
        sgn  == t # <<>> /\ (Head(t) = "-" \/ Head(t) = "+")
        body == IF sgn THEN Tail(t) ELSE t
    IN  IF body = <<>> \/ ~IsDigit(Head(body)) THEN NaN
        ELSE [nan |-> FALSE,
              val |-> IF neg THEN 0 - DigitRun(body, 0) ELSE DigitRun(body, 0)]

\* x || 0 for a number x: NaN and 0 are falsy
OrZero(x) == IF x.nan \/ x.val = 0 THEN 0 ELSE x.val

\* `Player ${n}`
PlayerName(n) == <<"P", "l", "a", "y", "e", "r", " ">> \o ToStr(n)

(* ---------------- user input ---------------- *)

Str(name) ==
    CASE name = "blank" -> <<" ", " ">>
      [] name = "Bob"   -> <<"B", "o", "b">>
      [] name = "Al"    -> <<" ", "A", "l", " ">>
      [] name = "Cy"    -> <<"C", "y">>

RawRow(name, toss, plinko, fluff) ==
    [name |-> Str(name), toss |-> toss, plinko |-> plinko, fluff |-> fluff]

\* what the user types into the first rows of the form before a submit:
\* name, toss, plinko, fluff of each row
EditSets ==
    { << RawRow("blank", <<"3">>, <<"4">>, <<"5">>),
         RawRow("Bob", <<"x">>, <<"2">>, <<>>),
         RawRow("Al", <<"-", "1">>, <<"0">>, <<" ", "1", "x">>) >> }

(* ---------------- state ---------------- *)

VARIABLES
    db,            \* the players array of the Firestore document
    docExists,     \* doc.exists
    form,          \* rows of scoreInputBody, in DOM order
    scoreboard,    \* content of scoreboardBody
    ops,           \* the running addPlayer / removePlayer / handleSaveScores calls
    genPending,    \* generateInputRows calls waiting for their load
    renderPending, \* renderScoreboard calls waiting for their load
    initPc,        \* position of the DOMContentLoaded handler
    events,        \* user events so far
    last,          \* outcome of the handler call that finished last (history)
    lastRender,    \* what the last renderScoreboard loaded (history)
    genLog         \* what the last generateInputRows loaded (history)

vars == <<db, docExists, form, scoreboard, ops, genPending, renderPending,
          initPc, events, last, lastRender, genLog>>

(* ---------------- database read / write ---------------- *)

\* getScoresFromDatabase: the players of the document, [] when the document
\* does not exist and [] when the get throws
getScoresFromDatabase(ok) ==
    IF ok THEN (IF docExists THEN db ELSE <<>>) ELSE <<>>

(* ---------------- input generation ---------------- *)

DefaultRows == 30

\* the rows generateInputRows builds from savedData
InputRows(savedData) ==
    LET numRows == IF Len(savedData) > 0 THEN Len(savedData) ELSE DefaultRows
    IN  [i \in 1..numRows |->
            IF i <= Len(savedData)
            THEN [idx    |-> i - 1,
                  name   |-> savedData[i].name,
                  toss   |-> ToStr(savedData[i].toss),
                  plinko |-> ToStr(savedData[i].plinko),
                  fluff  |-> ToStr(savedData[i].fluff)]
            ELSE [idx    |-> i - 1,
                  name   |-> PlayerName(i),
                  toss   |-> <<>>,
                  plinko |-> <<>>,
                  fluff  |-> <<>>]]

(* ---------------- data saving ---------------- *)

\* new FormData(scoreInputForm): one entry per input, in DOM order
RECURSIVE FormData(_)
FormData(rows) ==
    IF rows = <<>> THEN <<>>
    ELSE LET r == Head(rows)
         IN  << [field |-> "name",   idx |-> r.idx, value |-> r.name],
                [field |-> "toss",   idx |-> r.idx, value |-> r.toss],
                [field |-> "plinko", idx |-> r.idx, value |-> r.plinko],
                [field |-> "fluff",  idx |-> r.idx, value |-> r.fluff] >>
             \o FormData(Tail(rows))

\* the Set of the numeric suffixes of the keys
Indices(fd) == { fd[k].idx : k \in DOMAIN fd }

\* (variant: sort() without a comparator, which orders the indices as strings)
RECURSIVE StrLess(_, _)
StrLess(s, t) ==
    IF t = <<>> THEN FALSE
    ELSE IF s = <<>> THEN TRUE
    ELSE IF Head(s) = Head(t) THEN StrLess(Tail(s), Tail(t))
    ELSE DigitVal(Head(s)) < DigitVal(Head(t))

RECURSIVE SortedAsStrings(_)
SortedAsStrings(S) ==
    IF S = {} THEN <<>>
    ELSE LET m == CHOOSE x \in S : \A y \in S : x = y \/ StrLess(ToStr(x), ToStr(y))
         IN  <<m>> \o SortedAsStrings(S \ {m})

\* Array.from(indices).sort((a, b) => a - b)
RECURSIVE SortedIndices(_)
SortedIndices(S) ==
    IF S = {} THEN <<>>
    ELSE LET m == CHOOSE x \in S : \A y \in S : x <= y
         IN  <<m>> \o SortedIndices(S \ {m})

\* formData.get(key): the first value of that key, or null
FormGet(fd, field, i) ==
    LET hits == { k \in DOMAIN fd : fd[k].idx = i /\ fd[k].field = field }
    IN  IF hits = {} THEN [null |-> TRUE, value |-> <<>>]
        ELSE [null |-> FALSE, value |-> fd[CHOOSE k \in hits : \A j \in hits : k <= j].value]

\* parseInt(formData.get(key)) || 0
Score(fd, field, i) ==
    LET v == FormGet(fd, field, i)
    IN  IF v.null THEN 0 ELSE OrZero(ParseInt(v.value))

\* name-i is missing for some index: .trim() of null throws
SaveThrows(fd) == \E i \in Indices(fd) : FormGet(fd, "name", i).null

\* (variant: without the `if (name)` filter)
RECURSIVE CollectAll(_, _)
CollectAll(fd, idxs) ==
    IF idxs = <<>> THEN <<>>
    ELSE LET i == Head(idxs)
         IN  << [name   |-> Trim(FormGet(fd, "name", i).value),
                 toss   |-> Score(fd, "toss", i),
                 plinko |-> Score(fd, "plinko", i),
                 fluff  |-> Score(fd, "fluff", i)] >>
             \o CollectAll(fd, Tail(idxs))

\* the players array handleSaveScores collects from the form data
RECURSIVE CollectFrom(_, _)
CollectFrom(fd, idxs) ==
    IF idxs = <<>> THEN <<>>
    ELSE LET i    == Head(idxs)
             name == Trim(FormGet(fd, "name", i).value)
         IN  (IF name # <<>>
              THEN << [name   |-> name,
                       toss   |-> Score(fd, "toss", i),
                       plinko |-> Score(fd, "plinko", i),
                       fluff  |-> Score(fd, "fluff", i)] >>
              ELSE <<>>)
             \o CollectFrom(fd, Tail(idxs))

CollectPlayers(fd) == CollectFrom(fd, SortedIndices(Indices(fd)))

(* ---------------- player management ---------------- *)

\* the array addPlayer saves, and the name it reports
NewPlayerName(players) == PlayerName(Len(players) + 1)

\* (variant: unshift() instead of push())
AddedFirst(players) ==
    <<[name |-> NewPlayerName(players), toss |-> 0, plinko |-> 0, fluff |-> 0]>> \o players

AddedPlayers(players) ==
    Append(players, [name |-> NewPlayerName(players), toss |-> 0, plinko |-> 0, fluff |-> 0])

\* players.pop(): the removed element and what is left
Popped(players) == players[Len(players)]

\* (variant: shift() instead of pop())
AfterShift(players) == Tail(players)

AfterPop(players) == SubSeq(players, 1, Len(players) - 1)

(* ---------------- scoreboard ---------------- *)

WithTotal(player) ==
    [name |-> player.name, toss |-> player.toss, plinko |-> player.plinko,
     fluff |-> player.fluff, total |-> player.toss + player.plinko + player.fluff]

\* (variant: an unstable sort that puts e before its equals)
RECURSIVE InsertBeforeEquals(_, _)
InsertBeforeEquals(sorted, e) ==
    IF sorted = <<>> THEN <<e>>
    ELSE IF Head(sorted).total > e.total
         THEN <<Head(sorted)>> \o InsertBeforeEquals(Tail(sorted), e)
         ELSE <<e>> \o sorted

\* insert e behind every element that does not compare after it
\* (comparator b.total - a.total, stable sort)
RECURSIVE InsertByTotal(_, _)
InsertByTotal(sorted, e) ==
    IF sorted = <<>> THEN <<e>>
    ELSE IF Head(sorted).total >= e.total
         THEN <<Head(sorted)>> \o InsertByTotal(Tail(sorted), e)
         ELSE <<e>> \o sorted

RECURSIVE SortByTotal(_)
SortByTotal(ps) ==
    IF ps = <<>> THEN <<>>
    ELSE InsertByTotal(SortByTotal(SubSeq(ps, 1, Len(ps) - 1)), ps[Len(ps)])

\* the rows renderScoreboard writes for a non-empty players array
RankedRows(players) ==
    LET sorted == SortByTotal([i \in 1..Len(players) |-> WithTotal(players[i])])
    IN  [i \in 1..Len(sorted) |->
            [rank |-> i, name |-> sorted[i].name, toss |-> sorted[i].toss,
             plinko |-> sorted[i].plinko, fluff |-> sorted[i].fluff,
             total |-> sorted[i].total]]

NoScoresRow == [placeholder |-> TRUE, rows |-> <<>>]

\* (variant: an empty array is written as a table without rows)
RenderedTable(players) == [placeholder |-> FALSE, rows |-> RankedRows(players)]

Rendered(players) ==
    IF Len(players) = 0 THEN NoScoresRow
    ELSE [placeholder |-> FALSE, rows |-> RankedRows(players)]

(* ---------------- handler calls ---------------- *)

IdleOp ==
    [pc |-> "idle", kind |-> "none", players |-> <<>>, name |-> <<>>, rows |-> 0,
     base |-> <<>>, snap |-> <<>>, load |-> "none", overlap |-> FALSE, alerts |-> <<>>]

Running(p) == ops[p].pc # "idle"

\* a new call takes the first free slot
Free(p) == ~Running(p) /\ \A q \in Procs : q < p => Running(q)

Others(p) == { q \in Procs : q # p /\ Running(q) }

\* one more user event
UserEvent == events < MaxEvents /\ events' = events + 1

\* a handler is invoked: it remembers the persisted roster it started from,
\* and every call it runs alongside is marked as overlapped
Begin(p, kind, pc, players, rows) ==
    ops' = [q \in Procs |->
              IF q = p
              THEN [IdleOp EXCEPT !.pc = pc, !.kind = kind, !.players = players,
                                  !.rows = rows, !.base = db,
                                  !.overlap = Others(p) # {}]
              ELSE IF Running(q) THEN [ops[q] EXCEPT !.overlap = TRUE]
              ELSE ops[q]]

\* the outcome a finished call leaves behind: what it started from (base),
\* what the document held when its load was answered (snap), how its storage
\* calls ended, what it alerted, what the document holds now (after), and
\* the same of the call that finished before it (prev)
Summary(o) ==
    [kind |-> o.kind, base |-> o.base, save |-> o.save, alerts |-> o.alerts,
     overlap |-> o.overlap, after |-> o.after]

Outcome(op, save, alerts, after, before) ==
    [kind |-> op.kind, base |-> op.base, snap |-> op.snap,
     load |-> op.load, save |-> save, alerts |-> op.alerts \o alerts,
     name |-> op.name, players |-> op.players, rows |-> op.rows,
     overlap |-> op.overlap, after |-> after, prev |-> before]

NoOutcome ==
    Outcome(IdleOp, "none", <<>>, <<>>,
            [kind |-> "none", base |-> <<>>, save |-> "none", alerts |-> <<>>,
             overlap |-> FALSE, after |-> <<>>])

Finish(p, save, alerts, after) ==
    /\ ops' = [ops EXCEPT ![p] = IdleOp]
    /\ last' = Outcome(ops[p], save, alerts, after, Summary(last))

LoadAlerts(ok) == IF ok THEN <<>> ELSE <<"LoadError">>

(* ---------------- initialization ---------------- *)

Player(name, toss, plinko, fluff) ==
    [name |-> name, toss |-> toss, plinko |-> plinko, fluff |-> fluff]

\* what the document holds when the page is opened: nothing yet, or a roster
\* an earlier session saved
InitialRosters == { <<>>, << Player(<<"B", "o", "b">>, 0, 2, 0), Player(PlayerName(2), 0, 0, 0) >> }

\* the page right after the script has run, before any answer or event
Loaded ==
    /\ form = <<>>
    /\ scoreboard = [placeholder |-> FALSE, rows |-> <<>>]
    /\ ops = [p \in Procs |-> IdleOp]
    /\ genPending = 0
    /\ renderPending = 0
    /\ initPc = "gen"
    /\ events = 0
    /\ last = NoOutcome
    /\ lastRender = [done |-> FALSE, players |-> <<>>, snap |-> <<>>, ok |-> TRUE]
    /\ genLog = [built |-> FALSE, overlap |-> FALSE, from |-> <<>>]

Init ==
    /\ db \in InitialRosters
    /\ docExists = (db # <<>>)
    /\ Loaded

\* DOMContentLoaded: the awaited generateInputRows is answered, then showInput
\* starts a second one
DOMContentLoaded ==
    /\ initPc = "gen"
    /\ \E ok \in BOOLEAN :
          LET savedData == getScoresFromDatabase(ok)
          IN  /\ form' = InputRows(savedData)
              /\ genLog' = [built |-> TRUE, from |-> savedData,
                            overlap |-> genLog.overlap \/ genPending > 0]
    /\ genPending' = genPending + 1
    /\ initPc' = "done"
    /\ UNCHANGED <<db, docExists, scoreboard, ops, renderPending, events, last, lastRender>>

\* one more generateInputRows call is started; it overlaps the ones that
\* still wait for their load
Spawned == [genLog EXCEPT !.overlap = @ \/ genPending > 0 \/ initPc = "gen"]

(* ---------------- navigation ---------------- *)

showScoreboard ==
    /\ UserEvent
    /\ renderPending' = renderPending + 1
    /\ UNCHANGED <<db, docExists, form, scoreboard, ops, genPending, initPc, last, lastRender, genLog>>

showInput ==
    /\ UserEvent
    /\ genPending' = genPending + 1
    /\ genLog' = Spawned
    /\ UNCHANGED <<db, docExists, form, scoreboard, ops, renderPending, initPc, last, lastRender>>

\* a renderScoreboard call gets its load answered and writes the table
renderScoreboard ==
    /\ renderPending > 0
    /\ renderPending' = renderPending - 1
    /\ \E ok \in BOOLEAN :
          LET players == getScoresFromDatabase(ok)
          IN  /\ scoreboard' = Rendered(players)
              /\ lastRender' = [done |-> TRUE, players |-> players, snap |-> db,
                                ok |-> ok]
    /\ UNCHANGED <<db, docExists, form, ops, genPending, initPc, events, last, genLog>>

\* (variant: the rows are appended without clearing scoreInputBody first)
generateInputRowsAppending ==
    /\ genPending > 0
    /\ genPending' = genPending - 1
    /\ \E ok \in BOOLEAN :
          LET savedData == getScoresFromDatabase(ok)
          IN  /\ form' = form \o InputRows(savedData)
              /\ genLog' = [genLog EXCEPT !.built = TRUE, !.from = savedData]
    /\ UNCHANGED <<db, docExists, scoreboard, ops, renderPending, initPc, events,
                   last, lastRender>>

\* a generateInputRows call gets its load answered and rebuilds the form
generateInputRows ==
    /\ genPending > 0
    /\ genPending' = genPending - 1
    /\ \E ok \in BOOLEAN :
          LET savedData == getScoresFromDatabase(ok)
          IN  /\ form' = InputRows(savedData)
              /\ genLog' = [genLog EXCEPT !.built = TRUE, !.from = savedData]
    /\ UNCHANGED <<db, docExists, scoreboard, ops, renderPending, initPc, events,
                   last, lastRender>>

\* the user types an edit set into the first rows of the form
UserEdit ==
    /\ UserEvent
    /\ form # <<>>
    /\ \E e \in EditSets :
          form' = [i \in 1..Len(form) |->
                     IF i <= Len(e)
                     THEN [idx |-> form[i].idx, name |-> e[i].name, toss |-> e[i].toss,
                           plinko |-> e[i].plinko, fluff |-> e[i].fluff]
                     ELSE form[i]]
    /\ UNCHANGED <<db, docExists, scoreboard, ops, genPending, renderPending,
                   initPc, last, lastRender, genLog>>

(* ---------------- saveScoresToDatabase ---------------- *)

\* (variant: the players are added to the stored array instead of replacing it)
saveScoresMerged(players, ok) ==
    IF ok THEN db' = db \o players /\ docExists' = TRUE
          ELSE UNCHANGED <<db, docExists>>

\* (variant: the write lands although the call is answered with an error)
saveScoresApplied(players, ok) == db' = players /\ docExists' = TRUE

\* scoresDocRef.set({ players }) is answered: the whole array is written or
\* nothing is
saveScoresToDatabase(players, ok) ==
    IF ok THEN db' = players /\ docExists' = TRUE
          ELSE UNCHANGED <<db, docExists>>

\* (variant: the form is regenerated whether or not the save succeeded)
SpawnGenAlways(ok) == genPending' = genPending + 1 /\ genLog' = Spawned

\* the un-awaited generateInputRows() after a successful save
SpawnGen(ok) ==
    IF ok THEN genPending' = genPending + 1 /\ genLog' = Spawned
          ELSE UNCHANGED <<genPending, genLog>>

(* ---------------- handleSaveScores ---------------- *)

\* submit: collect the players from the form and issue the save
handleSaveScores(p) ==
    /\ Free(p)
    /\ UserEvent
    /\ LET fd == FormData(form)
       IN  IF SaveThrows(fd)
           THEN /\ ops' = ops
                /\ last' = Outcome([IdleOp EXCEPT !.kind = "save", !.base = db,
                                                  !.rows = Cardinality(Indices(fd)),
                                                  !.overlap = Others(p) # {}],
                                   "none", <<"Threw">>, db, Summary(last))
           ELSE /\ Begin(p, "save", "set", CollectPlayers(fd), Cardinality(Indices(fd)))
                /\ UNCHANGED last
    /\ UNCHANGED <<db, docExists, form, scoreboard, genPending, renderPending,
                   initPc, lastRender, genLog>>

\* the save is answered
SaveScoresSaved(p) ==
    /\ ops[p].pc = "set" /\ ops[p].kind = "save"
    /\ \E ok \in BOOLEAN :
          /\ saveScoresToDatabase(ops[p].players, ok)
          /\ SpawnGen(ok)
          /\ Finish(p, IF ok THEN "ok" ELSE "fail",
                       IF ok THEN <<"Saved">> ELSE <<"SaveError">>, db')
    /\ UNCHANGED <<form, scoreboard, renderPending, initPc, events, lastRender>>

(* ---------------- addPlayer ---------------- *)

addPlayer(p) ==
    /\ Free(p)
    /\ UserEvent
    /\ Begin(p, "add", "get", <<>>, 0)
    /\ UNCHANGED <<db, docExists, form, scoreboard, genPending, renderPending,
                   initPc, last, lastRender, genLog>>

\* the load is answered: push the new player and issue the save
AddPlayerLoaded(p) ==
    /\ ops[p].pc = "get" /\ ops[p].kind = "add"
    /\ \E ok \in BOOLEAN :
          LET players == getScoresFromDatabase(ok)
          IN  ops' = [ops EXCEPT ![p].pc = "set",
                                 ![p].snap = db,
                                 ![p].load = IF ok THEN "ok" ELSE "fail",
                                 ![p].alerts = LoadAlerts(ok),
                                 ![p].name = NewPlayerName(players),
                                 ![p].players = AddedPlayers(players)]
    /\ UNCHANGED <<db, docExists, form, scoreboard, genPending, renderPending,
                   initPc, events, last, lastRender, genLog>>

\* (variant: a failed save sends the call back to load and try again)
AddPlayerSavedRetry(p) ==
    /\ ops[p].pc = "set" /\ ops[p].kind = "add"
    /\ \E ok \in BOOLEAN :
          /\ saveScoresToDatabase(ops[p].players, ok)
          /\ SpawnGen(ok)
          /\ IF ok THEN Finish(p, "ok", <<"Added">>, db')
                   ELSE /\ ops' = [ops EXCEPT ![p].pc = "get"]
                        /\ UNCHANGED last
    /\ UNCHANGED <<form, scoreboard, renderPending, initPc, events, lastRender>>

\* the save is answered
AddPlayerSaved(p) ==
    /\ ops[p].pc = "set" /\ ops[p].kind = "add"
    /\ \E ok \in BOOLEAN :
          /\ saveScoresToDatabase(ops[p].players, ok)
          /\ SpawnGen(ok)
          /\ Finish(p, IF ok THEN "ok" ELSE "fail",
                       IF ok THEN <<"Added">> ELSE <<"SaveError">>, db')
    /\ UNCHANGED <<form, scoreboard, renderPending, initPc, events, lastRender>>

(* ---------------- removePlayer ---------------- *)

removePlayer(p) ==
    /\ Free(p)
    /\ UserEvent
    /\ Begin(p, "remove", "get", <<>>, 0)
    /\ UNCHANGED <<db, docExists, form, scoreboard, genPending, renderPending,
                   initPc, last, lastRender, genLog>>

\* (variant: without the `players.length > 0` check)
RemovePlayerLoadedUnchecked(p) ==
    /\ ops[p].pc = "get" /\ ops[p].kind = "remove"
    /\ \E ok \in BOOLEAN :
          LET players == getScoresFromDatabase(ok)
          IN  ops' = [ops EXCEPT ![p].pc = "set",
                                 ![p].snap = db,
                                 ![p].load = IF ok THEN "ok" ELSE "fail",
                                 ![p].alerts = LoadAlerts(ok),
                                 ![p].players = AfterPop(players)]
    /\ UNCHANGED <<db, docExists, form, scoreboard, genPending, renderPending,
                   initPc, events, last, lastRender, genLog>>

\* the load is answered: pop the last player and issue the save, or report
\* the empty list
RemovePlayerLoaded(p) ==
    /\ ops[p].pc = "get" /\ ops[p].kind = "remove"
    /\ \E ok \in BOOLEAN :
          LET players == getScoresFromDatabase(ok)
              loaded  == [ops[p] EXCEPT !.snap = db,
                                        !.load = IF ok THEN "ok" ELSE "fail",
                                        !.alerts = LoadAlerts(ok)]
          IN  IF Len(players) > 0
              THEN /\ ops' = [ops EXCEPT ![p] =
                                 [loaded EXCEPT !.pc = "set",
                                                !.name = Popped(players).name,
                                                !.players = AfterPop(players)]]
                   /\ UNCHANGED last
              ELSE /\ ops' = [ops EXCEPT ![p] = IdleOp]
                   /\ last' = Outcome(loaded, "none", <<"Empty">>, db, Summary(last))
    /\ UNCHANGED <<db, docExists, form, scoreboard, genPending, renderPending,
                   initPc, events, lastRender, genLog>>

\* the save is answered
RemovePlayerSaved(p) ==
    /\ ops[p].pc = "set" /\ ops[p].kind = "remove"
    /\ \E ok \in BOOLEAN :
          /\ saveScoresToDatabase(ops[p].players, ok)
          /\ SpawnGen(ok)
          /\ Finish(p, IF ok THEN "ok" ELSE "fail",
                       IF ok THEN <<"Removed">> ELSE <<"SaveError">>, db')
    /\ UNCHANGED <<form, scoreboard, renderPending, initPc, events, lastRender>>

(* ---------------- specification ---------------- *)

Next ==
    \/ DOMContentLoaded
    \/ showScoreboard
    \/ showInput
    \/ renderScoreboard
    \/ generateInputRows
    \/ UserEdit
    \/ \E p \in Procs : handleSaveScores(p)
    \/ \E p \in Procs : SaveScoresSaved(p)
    \/ \E p \in Procs : addPlayer(p)
    \/ \E p \in Procs : AddPlayerLoaded(p)
    \/ \E p \in Procs : AddPlayerSaved(p)
    \/ \E p \in Procs : removePlayer(p)
    \/ \E p \in Procs : RemovePlayerLoaded(p)
    \/ \E p \in Procs : RemovePlayerSaved(p)

Spec == Init /\ [][Next]_vars

\* every storage call is answered in the end, with a result or an error
StorageAnswers(p) ==
    \/ SaveScoresSaved(p)
    \/ AddPlayerLoaded(p)
    \/ AddPlayerSaved(p)
    \/ RemovePlayerLoaded(p)
    \/ RemovePlayerSaved(p)

\* the page once it has loaded and shows the edit form of the roster
InitHandlers ==
    /\ db \in InitialRosters
    /\ docExists = (db # <<>>)
    /\ form = InputRows(db)
    /\ scoreboard = [placeholder |-> FALSE, rows |-> <<>>]
    /\ ops = [p \in Procs |-> IdleOp]
    /\ genPending = 0
    /\ renderPending = 0
    /\ initPc = "done"
    /\ events = 0
    /\ last = NoOutcome
    /\ lastRender = [done |-> FALSE, players |-> <<>>, snap |-> <<>>, ok |-> TRUE]
    /\ genLog = [built |-> TRUE, overlap |-> FALSE, from |-> db]

\* the three mutation handlers and the answers to their storage calls
NextHandlers ==
    \/ \E p \in Procs : handleSaveScores(p)
    \/ \E p \in Procs : SaveScoresSaved(p)
    \/ \E p \in Procs : addPlayer(p)
    \/ \E p \in Procs : AddPlayerLoaded(p)
    \/ \E p \in Procs : AddPlayerSaved(p)
    \/ \E p \in Procs : removePlayer(p)
    \/ \E p \in Procs : RemovePlayerLoaded(p)
    \/ \E p \in Procs : RemovePlayerSaved(p)

FairSpec ==
    InitHandlers /\ [][NextHandlers]_vars /\ \A p \in Procs : WF_vars(StorageAnswers(p))

(* ---------------- the ranking on its own ---------------- *)

\* players a saved roster can hold; two of them tie
RankPlayers ==
    { Player(<<"A">>, 10, 5, 0), Player(<<"B">>, 10, 5, 0),
      Player(<<"C">>, 1, 1, 1),  Player(<<"D">>, 0 - 1, 0, 1) }

RECURSIVE Rosters(_)
Rosters(n) ==
    IF n = 0 THEN { <<>> }
    ELSE LET shorter == Rosters(n - 1)
         IN  shorter \cup { Append(r, x) : r \in { q \in shorter : Len(q) = n - 1 },
                                           x \in RankPlayers }

InitRank ==
    /\ db \in Rosters(MaxRankLen)
    /\ docExists = TRUE
    /\ Loaded

NextRank == showScoreboard \/ renderScoreboard

SpecRank == InitRank /\ [][NextRank]_vars

(* ---------------- save-edits on its own ---------------- *)

\* row indices a form can carry: sparse, and with 10 and 11 next to 2
IndexPool == { 0, 2, 10, 11 }

RowContents == { e[i] : i \in 1..3, e \in EditSets }

\* forms of up to n rows with distinct indices, in any order
RECURSIVE Forms(_)
Forms(n) ==
    IF n = 0 THEN { <<>> }
    ELSE LET shorter == Forms(n - 1)
         IN  shorter \cup
             { Append(f, [idx |-> x, name |-> c.name, toss |-> c.toss,
                          plinko |-> c.plinko, fluff |-> c.fluff]) :
                 f \in { g \in shorter : Len(g) = n - 1 /\ Cardinality(IndexPool) >= n },
                 x \in IndexPool, c \in RowContents }

DistinctIdx(f) == \A i, j \in DOMAIN f : i # j => f[i].idx # f[j].idx

InitEdits ==
    /\ db \in InitialRosters
    /\ docExists = (db # <<>>)
    /\ form \in { f \in Forms(MaxEditLen) : DistinctIdx(f) }
    /\ scoreboard = [placeholder |-> FALSE, rows |-> <<>>]
    /\ ops = [p \in Procs |-> IdleOp]
    /\ genPending = 0
    /\ renderPending = 0
    /\ initPc = "done"
    /\ events = 0
    /\ last = NoOutcome
    /\ lastRender = [done |-> FALSE, players |-> <<>>, snap |-> <<>>, ok |-> TRUE]
    /\ genLog = [built |-> FALSE, overlap |-> FALSE, from |-> <<>>]

NextEdits ==
    \/ \E p \in Procs : handleSaveScores(p)
    \/ \E p \in Procs : SaveScoresSaved(p)

SpecEdits == InitEdits /\ [][NextEdits]_vars

(* ---------------- properties ---------------- *)

Has(alerts, a) == \E i \in DOMAIN alerts : alerts[i] = a

ReportsSuccess(o) ==
    Has(o.alerts, "Added") \/ Has(o.alerts, "Removed") \/ Has(o.alerts, "Saved")

Front(r) == SubSeq(r, 1, Len(r) - 1)

Total(player) == player.toss + player.plinko + player.fluff

\* C1: an addPlayer that reports success and did not overlap another call
\* leaves the roster it started from, R, with exactly one record appended:
\* "Player N+1" with all scores 0, N the length of R.
C1_AddAppendsToRoster ==
    (last.kind = "add" /\ Has(last.alerts, "Added") /\ ~last.overlap)
        => /\ last.after = Append(last.base,
                                  Player(PlayerName(Len(last.base) + 1), 0, 0, 0))
           /\ last.name = PlayerName(Len(last.base) + 1)

\* C2: a mutation whose replace call failed, and which did not overlap another
\* call, leaves the persisted roster as it was before the operation and does
\* not report success.
C2_FailedReplaceKeepsRoster ==
    (last.save = "fail" /\ ~last.overlap)
        => last.after = last.base /\ ~ReportsSuccess(last)

\* the replace of a call that ran alone failed, on a roster that is not
\* empty and differs from what the call tried to write
C2_Witness ==
    /\ last.save = "fail" /\ ~last.overlap
    /\ last.base # <<>> /\ last.players # last.base
    /\ Has(last.alerts, "SaveError")

\* C3: an addPlayer or removePlayer one of whose storage calls failed never
\* reports success.
C3_StorageFailureNotSuccess ==
    (last.kind \in {"add", "remove"} /\ (last.load = "fail" \/ last.save = "fail"))
        => ~ReportsSuccess(last)

\* C4: a removePlayer that reports success loaded a non-empty roster R (the
\* roster it started from, when no other call overlapped it), leaves the
\* persisted roster equal to R without its last element, and reports the
\* name of that last element.
C4_RemoveDropsLast ==
    (last.kind = "remove" /\ Has(last.alerts, "Removed"))
        => /\ last.snap # <<>>
           /\ last.after = Front(last.snap)
           /\ last.name = last.snap[Len(last.snap)].name
           /\ ~last.overlap => last.snap = last.base

C4_Witness ==
    /\ last.kind = "remove" /\ Has(last.alerts, "Removed") /\ ~last.overlap
    /\ Len(last.base) >= 2
    /\ last.base[1] # last.base[Len(last.base)]

\* C5: a removePlayer whose load finds the roster empty reports the empty
\* list and issues no write call: it never waits for a save, and the store
\* is as it was.
C5_RemoveOnEmptyWritesNothing ==
    /\ \A p \in Procs :
          (ops[p].kind = "remove" /\ ops[p].pc = "set") => ops[p].snap # <<>>
    /\ (last.kind = "remove" /\ last.snap = <<>>)
          => /\ Has(last.alerts, "Empty")
             /\ last.save = "none"
             /\ last.after = last.snap
             /\ ~last.overlap => last.after = last.base

C5_Witness ==
    /\ last.kind = "remove" /\ last.snap = <<>> /\ last.load = "ok"
    /\ Has(last.alerts, "Empty") /\ ~last.overlap

\* C6: removePlayer reports the empty list only when the persisted roster is
\* empty.
C6_EmptyOnlyWhenEmpty ==
    (last.kind = "remove" /\ Has(last.alerts, "Empty")) => last.snap = <<>>

\* C7: an addPlayer that reports success, directly followed by a removePlayer
\* that reports success (neither overlapping another call), leaves the roster
\* the addPlayer started from.
C7_AddRemoveRoundTrip ==
    ( /\ last.kind = "remove" /\ Has(last.alerts, "Removed") /\ ~last.overlap
      /\ last.prev.kind = "add" /\ Has(last.prev.alerts, "Added") /\ ~last.prev.overlap
      /\ last.base = last.prev.after )
        => last.after = last.prev.base

\* where the stable descending sort puts element i of roster r
RankOf(r, i) ==
    1 + Cardinality({ j \in 1..Len(r) : Total(r[j]) > Total(r[i]) })
      + Cardinality({ j \in 1..(i - 1) : Total(r[j]) = Total(r[i]) })

\* C8: the table rendered from a non-empty roster R has Len(R) rows; every
\* row's total is toss + plinko + fluff; totals descend; equal totals keep
\* their roster order; the ranks are 1..Len(R).
C8_RankedView ==
    lastRender.players # <<>> =>
        LET r == lastRender.players
            v == scoreboard.rows
        IN  /\ ~scoreboard.placeholder
            /\ Len(v) = Len(r)
            /\ \A i \in 1..Len(v) :
                  /\ v[i].rank = i
                  /\ v[i].total = v[i].toss + v[i].plinko + v[i].fluff
            /\ \A i, j \in 1..Len(v) : i < j => v[i].total >= v[j].total
            /\ \A i \in 1..Len(r) :
                  LET e == v[RankOf(r, i)]
                  IN  /\ e.name = r[i].name /\ e.toss = r[i].toss
                      /\ e.plinko = r[i].plinko /\ e.fluff = r[i].fluff

\* a roster with two different players of equal total, and with a player
\* that ranks before one standing earlier in the roster, was rendered
C8_Witness ==
    LET r == lastRender.players
    IN  /\ ~scoreboard.placeholder /\ Len(scoreboard.rows) = Len(r)
        /\ \E i, j \in 1..Len(r) : i < j /\ Total(r[i]) = Total(r[j]) /\ r[i] # r[j]
        /\ \E i, j \in 1..Len(r) : i < j /\ Total(r[i]) < Total(r[j])

NamesNonEmpty(r) == \A i \in 1..Len(r) : Trim(r[i].name) # <<>>

\* C9: every persisted player has a non-empty trimmed name, and so has every
\* player of a roster that save-edits has collected from the form.
C9_NamesNonEmpty ==
    /\ NamesNonEmpty(db)
    /\ \A p \in Procs : ops[p].kind = "save" => NamesNonEmpty(ops[p].players)
    /\ last.kind = "save" => NamesNonEmpty(last.players)

\* a form with a row of blank name and non-blank scores was saved: the row
\* is not in the roster
C9_Witness ==
    /\ last.kind = "save" /\ last.save = "ok" /\ ~last.overlap
    /\ db = last.players /\ db # <<>>
    /\ Len(last.players) < last.rows

ScoresNonNegative(r) ==
    \A i \in 1..Len(r) : r[i].toss >= 0 /\ r[i].plinko >= 0 /\ r[i].fluff >= 0

\* C10: all three scores of every persisted player are non-negative.
C10_ScoresNonNegative == ScoresNonNegative(db)

\* the rows of form f that have a name, and the place in the roster of row i
\* when the named rows are put in the order of their indices
Named(f) == { i \in DOMAIN f : Trim(f[i].name) # <<>> }

Place(f, i) == 1 + Cardinality({ j \in Named(f) : f[j].idx < f[i].idx })

\* C11: the roster save-edits collects from a form holds exactly the named
\* rows, in ascending order of their row indices, whatever the order of the
\* rows in the form and whichever indices are missing.
C11_AscendingIndexOrder ==
    \A p \in Procs :
        ops[p].kind = "save" =>
            LET r == ops[p].players
            IN  /\ Len(r) = Cardinality(Named(form))
                /\ \A i \in Named(form) :
                      LET e == r[Place(form, i)]
                      IN  /\ e.name = Trim(form[i].name)
                          /\ e.toss = OrZero(ParseInt(form[i].toss))
                          /\ e.plinko = OrZero(ParseInt(form[i].plinko))
                          /\ e.fluff = OrZero(ParseInt(form[i].fluff))

\* a form whose named rows arrive out of order, with the indices 2 and 10
C11_Witness ==
    \E p \in Procs :
        /\ ops[p].kind = "save" /\ Len(ops[p].players) >= 2
        /\ \E i, j \in Named(form) :
              i < j /\ form[i].idx = 10 /\ form[j].idx = 2

\* C12: two successful saves of the same form, one after the other, leave
\* the roster the first one left (under SpecEdits the form does not change).
C12_SaveTwiceSameRoster ==
    ( /\ last.kind = "save" /\ last.save = "ok"
      /\ last.prev.kind = "save" /\ last.prev.save = "ok" )
        => last.after = last.prev.after

C12_Witness ==
    /\ last.kind = "save" /\ last.save = "ok" /\ ~last.overlap
    /\ last.prev.kind = "save" /\ last.prev.save = "ok"
    /\ last.base = last.prev.after
    /\ last.base # <<>> /\ Len(last.players) < last.rows
    /\ db = last.prev.after

\* the form the edit view is stated to show for a load result: the persisted
\* players, padded with placeholders "Player i+1" up to DefaultRows rows
PaddedRows(savedData) ==
    LET n == Len(savedData)
        k == IF n > DefaultRows THEN n ELSE DefaultRows
    IN  [i \in 1..k |->
            IF i <= n
            THEN [idx |-> i - 1, name |-> savedData[i].name,
                  toss |-> ToStr(savedData[i].toss),
                  plinko |-> ToStr(savedData[i].plinko),
                  fluff |-> ToStr(savedData[i].fluff)]
            ELSE [idx |-> i - 1, name |-> PlayerName(i),
                  toss |-> <<>>, plinko |-> <<>>, fluff |-> <<>>]]

\* row i of the form holds what the user typed into it
Typed(i, row) ==
    \E e \in EditSets :
        /\ i <= Len(e)
        /\ row = [idx |-> i - 1, name |-> e[i].name, toss |-> e[i].toss,
                  plinko |-> e[i].plinko, fluff |-> e[i].fluff]

\* C13: once built, the edit form shows the loaded roster padded to
\* max(n, 30) rows, every row past the roster being the placeholder
\* "Player i+1" with blank scores (rows the user typed into apart).
C13_PaddedToThirty ==
    genLog.built =>
        LET want == PaddedRows(genLog.from)
        IN  /\ Len(form) = Len(want)
            /\ \A i \in DOMAIN form : form[i] = want[i] \/ Typed(i, form[i])

\* C14: the scoreboard shows the "no scores" placeholder, and no ranked
\* entry, exactly when the roster its render loaded is empty; a non-empty
\* roster gives one ranked entry per player and no placeholder. A load that
\* was answered gives the persisted roster.
C14_PlaceholderIffEmpty ==
    lastRender.done =>
        /\ scoreboard.placeholder <=> lastRender.players = <<>>
        /\ scoreboard.placeholder => scoreboard.rows = <<>>
        /\ ~scoreboard.placeholder =>
              /\ Len(scoreboard.rows) = Len(lastRender.players)
              /\ Len(scoreboard.rows) > 0
        /\ lastRender.ok => lastRender.players = lastRender.snap

C14_Witness ==
    /\ lastRender.done /\ lastRender.ok
    /\ lastRender.snap = <<>> /\ db = <<>>
    /\ scoreboard = NoScoresRow

\* C15: a step in which the save of a save-edits, addPlayer or removePlayer
\* call is answered with a failure leaves the rows and values of the edit
\* form as they are and schedules no regeneration of the form.
C15_FailedSaveKeepsForm ==
    [][ (\E p \in Procs : /\ ops[p].pc = "set" /\ ops'[p].pc = "idle"
                          /\ last'.save = "fail")
          => (form' = form /\ genPending' = genPending) ]_vars

\* a failed save of typed-in scores: the form still shows what was typed
C15_Witness ==
    /\ last.kind = "save" /\ last.save = "fail"
    /\ form # <<>> /\ Typed(1, form[1])
    /\ genPending = 0 /\ db = last.base

\* the roster a call works on after its load: what was loaded, or [] when
\* the load failed
LoadedBy(o) == IF o.load = "ok" THEN o.snap ELSE <<>>

C17_OneMutationAtATime ==
    Cardinality({ p \in Procs : Running(p) }) <= 1

NewPlayer(r) == [name |-> PlayerName(Len(r) + 1), toss |-> 0, plinko |-> 0, fluff |-> 0]

\* C18: an addPlayer that loaded a roster and reports success leaves that
\* roster plus its own player, whatever another call wrote in between; so
\* when the addPlayer that finished before it also reported success on the
\* same roster, the two leave the same roster: one player more, not two.
C18_SecondReplaceOverwrites ==
    (last.kind = "add" /\ Has(last.alerts, "Added") /\ last.load = "ok") =>
        /\ last.after = Append(last.snap, NewPlayer(last.snap))
        /\ ( /\ last.prev.kind = "add" /\ Has(last.prev.alerts, "Added")
             /\ last.prev.after = Append(last.snap, NewPlayer(last.snap)) )
              => /\ last.after = last.prev.after
                 /\ Len(db) = Len(last.snap) + 1

\* two overlapping addPlayer calls that loaded the same roster, both
\* reporting success: the roster holds one new player
C18_Witness ==
    /\ last.kind = "add" /\ Has(last.alerts, "Added") /\ last.load = "ok"
    /\ last.prev.kind = "add" /\ Has(last.prev.alerts, "Added")
    /\ last.overlap /\ last.prev.overlap
    /\ last.snap = last.prev.base /\ last.snap # <<>>
    /\ last.after = last.prev.after
    /\ db = Append(last.snap, NewPlayer(last.snap))

\* the steps a handler call can take: begin with its load or its save, from
\* the load to the save or to the end, from the save to the end
Forward(p) ==
    \/ ops'[p].pc = ops[p].pc
    \/ <<ops[p].pc, ops'[p].pc>> \in
          { <<"idle", "get">>, <<"idle", "set">>, <<"get", "set">>,
            <<"get", "idle">>, <<"set", "idle">> }

\* the answer to a call's load is recorded once
OneLoad(p) ==
    (Running(p) /\ ops[p].load # "none" /\ ops'[p].pc # "idle")
        => (ops'[p].load = ops[p].load /\ ops'[p].snap = ops[p].snap)

\* C19: with every storage call answered in the end, every started
\* addPlayer, removePlayer or save-edits finishes; a call goes through its
\* load at most once and through its save at most once, never back.
C19_RunsToCompletion ==
    /\ \A p \in Procs : Running(p) ~> ~Running(p)
    /\ [][\A p \in Procs : Forward(p) /\ OneLoad(p)]_vars

\* an addPlayer that ended in failure after one load and one save
C19_Witness ==
    /\ last.kind = "add" /\ last.load = "ok" /\ last.save = "fail"
    /\ \A p \in Procs : ~Running(p)

\* C20: whenever the form has been built, however many generateInputRows
\* calls were running at once, it holds one row per index 0..k-1, each row
\* the one built from the load result of the call that built the form last
\* (or what the user typed into it since).
C20_FormFromOneLoad ==
    genLog.built =>
        LET want == InputRows(genLog.from)
        IN  /\ Len(form) = Len(want)
            /\ \A i \in DOMAIN form :
                  /\ form[i].idx = i - 1
                  /\ form[i] = want[i] \/ Typed(i, form[i])

\* generateInputRows calls have run at the same time and all have finished
C20_Witness ==
    /\ genLog.built /\ genLog.overlap
    /\ genPending = 0 /\ initPc = "done"
    /\ form = InputRows(genLog.from) /\ genLog.from = db /\ db # <<>>

====
